---- MODULE Spec2Model ----
(***************************************************************************)
(* Model of the chat page of the Iroha study companion                     *)
(* (src/frontend/app/page.tsx): the React state of the Home component, the *)
(* asynchronous handlers sendChat, loadSessions, loadSession,              *)
(* deleteSession, createNewSession and clearAll, and the requests they     *)
(* have in flight; the voice panel and its configuration request; the      *)
(* annotations of the entries (addReaction, toggleBookmark); and the       *)
(* useVoiceInput hook with the recognition object it drives.               *)
(*                                                                         *)
(* An async handler runs synchronously up to its first await, so the       *)
(* state updates before a fetch and the issuing of the fetch are one step, *)
(* and the code after an await up to the next fetch is one step (React     *)
(* batches the setState calls of one continuation).  A handler reads the   *)
(* state through the closure of the render it was created in: what it      *)
(* reads after an await is the value captured when it was called.          *)
(*                                                                         *)
(* The backend is not part of the sources; its session store is modelled   *)
(* from the specification (sections 3, 4.1, 4.3, 6).                       *)
(***************************************************************************)
EXTENDS Integers, Sequences, FiniteSets, TLC

\* ------------------------------------------------------------------ bounds
\* sendChat calls started in one behaviour of the chat pipeline (ChatSpec)
MaxCalls == 2
\* sendChat calls started in one behaviour of a longer conversation (ThreadSpec)
MaxThread == 3
\* sendChat calls started in one behaviour of the whole page (Spec)
MaxPageCalls == 1
\* sidebar operations (loadSession, deleteSession) started in one behaviour
MaxOps == 1
\* calls of recognition.start() in one behaviour
MaxStarts == 2
\* sendChat calls started in one behaviour of the voice input (VoiceSpec)
MaxVoiceCalls == 1
\* sendChat calls started in one behaviour of the voice panel (PanelSpec)
MaxPanelCalls == 1
\* sidebar operations started in one behaviour of the sidebar alone (SwitchSpec)
MaxSwitches == 3
\* annotation operations (addReaction, toggleBookmark) started in one behaviour
MaxNotes == 4

\* ------------------------------------------------------------------ values
\* currentSessionId's null; session ids are positive, and `!currentSessionId`
\* treats null and 0 alike
Null == 0
\* an optional field of an object: absent (undefined), or present with a value
None == <<>>
Some(v) == << v >>

\* what the user can have typed in the message box: strings as character sequences
Typed == { <<" ">>, <<" ", "a", " ">> }
\* the texts the completion API can answer with
Replies == { <<"o", "k">> }

\* ------------------------------------------------------------------ state
VARIABLES
  mounted,          \* the mount effects have run
  message,          \* useState("") : the message box
  history,          \* useState<ChatMsg[]>([])
  status,           \* useState("Ready"), as the pieces of the template string
  loading,          \* useState(false)
  textOnly,         \* useState(false)
  audioUrl,         \* useState<string | null>(null)
  sessions,         \* useState<Session[]>([])
  currentSessionId, \* useState<number | null>(null)
  chats,            \* the sendChat calls, in call order
  lists,            \* the loadSessions calls in flight
  loads,            \* the loadSession calls in flight
  dels,             \* the deleteSession calls awaiting their DELETE
  store,            \* backend: ids of the session rows
  nextId,           \* backend: id of the next session row
  nops,             \* sidebar operations started so far
  audioSrc,         \* audioRef.current.src: what the audio element plays
  deleted,          \* history variable: the ids whose deleteSession has returned
                    \* after both of its requests succeeded
  conv,             \* history variable: the session id a chat response supplied
                    \* for the conversation shown, Null while none has
  voices,           \* useState<Record<string, string>>({}), as a set of pairs
  voice,            \* useState("Arista-PlayAI")
  speed,            \* useState(1.05), as the decimal string
  cfg,              \* the loadConfig call of the mount effect
  showReactionPopup, \* useState<number | null>(null)
  nnotes,           \* annotation operations started so far
  isListening,      \* useVoiceInput: useState(false)
  transcript,       \* useVoiceInput: useState("")
  isSupported,      \* useVoiceInput: useState(false)
  recognition,      \* recognitionRef.current: "null", or the state of the
                    \* recognition object ("idle", "started", "stopping")
  starts,           \* history variable: the calls of recognition.start()
  speechApi,        \* the browser has window.SpeechRecognition
  selected          \* history variable: the loadSession calls, in call order

vars == << mounted, message, history, status, loading, textOnly, audioUrl,
           sessions, currentSessionId, chats, lists, loads, dels, store,
           nextId, nops, audioSrc, deleted, conv,
           voices, voice, speed, cfg, showReactionPopup, nnotes,
           isListening, transcript, isSupported, recognition, starts,
           speechApi, selected >>

\* the state of the voice panel, of the annotations and of the voice input hook
cfgVars == << voices, voice, speed, cfg >>
noteVars == << showReactionPopup, nnotes >>
hookVars == << isListening, transcript, isSupported, recognition, starts,
              speechApi >>
panelVars == << cfgVars, noteVars, hookVars >>

\* ------------------------------------------------------------------ strings
IsSpace(ch) == ch = " "

RECURSIVE TrimStart(_)
TrimStart(s) ==
  IF s # <<>> /\ IsSpace(Head(s)) THEN TrimStart(Tail(s)) ELSE s

RECURSIVE TrimEnd(_)
TrimEnd(s) ==
  IF s # <<>> /\ IsSpace(s[Len(s)]) THEN TrimEnd(SubSeq(s, 1, Len(s) - 1)) ELSE s

\* String.prototype.trim
Trim(s) == TrimEnd(TrimStart(s))

\* encodeURIComponent: the text as it travels in the query string
encodeURIComponent(t) == << "uri", t >>

\* JavaScript truthiness of a session id (number | null | undefined)
Truthy(x) == x # Null

\* ------------------------------------------------------------------ messages
\* line 296: const userMsg = { role: "user", content: message.trim() }
\* (userMsg_Untrimmed: the variant that forgets the trim)
userMsg_Untrimmed(m) ==
  [role |-> "user", content |-> m, id |-> None,
   reactions |-> None, bookmarked |-> None]
userMsg(m) ==
  [role |-> "user", content |-> Trim(m), id |-> None,
   reactions |-> None, bookmarked |-> None]

\* line 324: const botMsg = { role: "assistant", content: data.response }
botMsg(data) ==
  [role |-> "assistant", content |-> data.response, id |-> None,
   reactions |-> None, bookmarked |-> None]

\* ------------------------------------------------------------------ responses
\* what a fetch settles with: a response with ok status, a response with a
\* non-ok status, or a rejection (network error)
NoResp == [kind |-> "none", code |-> "", body |-> <<>>]
HttpError == [kind |-> "http", code |-> "500", body |-> <<>>]
HttpNotFound == [kind |-> "http", code |-> "404", body |-> <<>>]
Rejected == [kind |-> "reject", code |-> "", body |-> <<>>]
Ok(b) == [kind |-> "ok", code |-> "200", body |-> b]
Failures == { HttpError, Rejected }

\* line 315 / 339: new Error(`Chat failed (${res.status})`); a rejected fetch
\* throws a TypeError with the browser's message
ErrorOf(what, resp) ==
  IF resp.kind = "reject"
    THEN [message |-> << "Failed to fetch" >>]
    ELSE [message |-> << what, " failed (", resp.code, ")" >>]

\* lines 349-351: finally { setLoading(false) }, as it leaves loading when the
\* try block threw
\* (LoadingAfterError_Kept: the variant that resets loading on success only)
LoadingAfterError_Kept == loading
LoadingAfterError == FALSE

\* line 348: setStatus(`Error: ${err?.message ?? err}`)
\* (ErrorStatus_Silent: the variant that swallows the error)
ErrorStatus_Silent(err) == << "Ready" >>
ErrorStatus(err) == << "Error: " >> \o err.message

\* ------------------------------------------------------------------ requests
\* lines 308-312: the body of POST /chat/session
ChatBody(content, sid) ==
  [message |-> content, session_id |-> sid, persona |-> "iroha"]

\* lines 332-333: the text parameter of POST /voice/groq/stream
\* (TtsText_OfRequest: the variant that speaks the user's message)
TtsText_OfRequest(call, data) == encodeURIComponent(call.body.message)
TtsText(call, data) == encodeURIComponent(data.response)

\* line 319: if (data.metadata?.session_id && !currentSessionId), with the
\* currentSessionId of the render sendChat was called in
IsNewSession(call, data) == Truthy(data.session_id) /\ ~Truthy(call.sid)

\* line 329: if (!textOnly), with the textOnly of the render sendChat was called in
\* (WantsVoice_Always: the variant that ignores the option)
WantsVoice_Always(call) == TRUE
WantsVoice(call) == ~call.textOnly

\* line 326: `Response time: ${data?.metadata?.duration_seconds ?? "?"}s`
ResponseTime(data) == << "Response time: ", data.duration_seconds, "s" >>

\* line 716: disabled={loading || !message.trim()}
SendDisabled == loading \/ Trim(message) = <<>>

\* lines 341-343: URL.createObjectURL(new Blob([buf])) makes a new URL each time
createObjectURL(c) == << "blob", c >>

\* lines 234-239: the effect that plays the audio when audioUrl changes
PlayedAfter(url) ==
  IF url # audioUrl /\ url # None THEN url ELSE audioSrc

\* a loadSessions call (lines 242-251) whose GET /sessions is in flight; owner is
\* "mount", "chat" or "delete", and the call deleteSession awaits carries the id
\* deleted, the currentSessionId of the render deleteSession was called in, and
\* whether the DELETE was answered with an ok status
ListCall(owner, id, sid, ok) ==
  [owner |-> owner, id |-> id, sid |-> sid, ok |-> ok,
   net |-> "sent", resp |-> NoResp]

\* ------------------------------------------------------------------ Init
\* the page as constructed, in a browser that has the speech API or not (api),
\* with a backend whose store holds the session rows 1..n
Start(n, api) ==
  /\ mounted = FALSE
  /\ message = <<>>
  /\ history = <<>>
  /\ status = << "Ready" >>
  /\ loading = FALSE
  /\ textOnly = FALSE
  /\ audioUrl = None
  /\ audioSrc = None
  /\ sessions = <<>>
  /\ currentSessionId = Null
  /\ chats = <<>>
  /\ lists = <<>>
  /\ loads = <<>>
  /\ dels = <<>>
  /\ store = 1..n
  /\ nextId = n + 1
  /\ nops = 0
  /\ deleted = {}
  /\ conv = Null
  /\ voices = {}
  /\ voice = "Arista-PlayAI"
  /\ speed = "1.05"
  /\ cfg = [net |-> "none", resp |-> NoResp, reqs |-> 0]
  /\ showReactionPopup = None
  /\ nnotes = 0
  /\ isListening = FALSE
  /\ transcript = <<>>
  /\ isSupported = FALSE
  /\ recognition = "null"
  /\ starts = 0
  /\ speechApi = api
  /\ selected = <<>>

Init == Start(1, TRUE)

\* line 215: loadConfig sends GET /voice/groq/config
\* (loadConfig_Twice: the variant whose effect sends the request twice)
loadConfig_Twice(c) == [c EXCEPT !.net = "sent", !.reqs = @ + 2]
loadConfig(c) == [c EXCEPT !.net = "sent", !.reqs = @ + 1]

\* the effects of the first render: lines 45-72 make the recognition object
\* when the browser has the speech API, lines 212-226 call loadConfig(), and
\* lines 228-231 call loadSessions()
Mount ==
  /\ ~mounted
  /\ mounted' = TRUE
  /\ isSupported' = speechApi
  /\ recognition' = IF speechApi THEN "idle" ELSE recognition
  /\ cfg' = loadConfig(cfg)
  /\ lists' = Append(lists, ListCall("mount", Null, Null, FALSE))
  /\ UNCHANGED << message, history, status, loading, textOnly, audioUrl,
                  sessions, currentSessionId, chats, loads, dels, store,
                  nextId, nops, audioSrc, deleted, conv >>
  /\ UNCHANGED << voices, voice, speed, noteVars, isListening, transcript,
                  starts, speechApi, selected >>

\* ------------------------------------------------------------------ the controls
\* line 685: onChange={(e) => setMessage(e.target.value)}; line 695: the box is
\* disabled while listening
SetMessage(m) ==
  /\ mounted
  /\ ~isListening
  /\ message # m
  /\ message' = m
  /\ UNCHANGED << mounted, history, status, loading, textOnly, audioUrl,
                  sessions, currentSessionId, chats, lists, loads, dels,
                  store, nextId, nops, audioSrc, conv, deleted >>
  /\ UNCHANGED << panelVars, selected >>

\* line 540: onChange={(e) => setTextOnly(e.target.checked)}
SetTextOnly ==
  /\ mounted
  /\ textOnly' = ~textOnly
  /\ UNCHANGED << mounted, message, history, status, loading, audioUrl,
                  sessions, currentSessionId, chats, lists, loads, dels,
                  store, nextId, nops, audioSrc, conv, deleted >>
  /\ UNCHANGED << panelVars, selected >>

\* ------------------------------------------------------------------ sendChat
\* lines 293-313: sendChat up to its first await; limit bounds the calls of a
\* behaviour
sendChat(limit) ==
  /\ Trim(message) # <<>>
  /\ Len(chats) < limit
  /\ history' = Append(history, userMsg(message))
  /\ message' = <<>>
  /\ transcript' = <<>>
  /\ loading' = TRUE
  /\ status' = << "Thinking..." >>
  /\ chats' = Append(chats,
       [pc |-> "chat", net |-> "sent", resp |-> NoResp,
        typed |-> message, sid |-> currentSessionId, textOnly |-> textOnly,
        body |-> ChatBody(userMsg(message).content, currentSessionId),
        reply |-> None, ttsText |-> None, chatReqs |-> 1, ttsReqs |-> 0,
        appended |-> << userMsg(message) >>, audio |-> None,
        outcome |-> "pending", alive |-> TRUE, conv |-> conv,
        voice |-> voice, speed |-> speed])
  /\ UNCHANGED << mounted, textOnly, audioUrl, sessions, currentSessionId,
                  lists, loads, dels, store, nextId, nops, audioSrc, conv, deleted >>
  /\ UNCHANGED << cfgVars, noteVars, isListening, isSupported, recognition,
                  starts, speechApi, selected >>

\* A sendChat call is a record: pc and net say where it stands ("chat" or "tts",
\* with the request "sent" or "replied"; "done" once it has returned), resp is
\* what the pending fetch settled with, sid and textOnly are the
\* currentSessionId and textOnly of the render it was called in (and voice and
\* speed its voice and speed, which the TTS request carries), body is the
\* chat request's body and ttsText the TTS request's text.  The other fields
\* are history: typed is the message box when it was called, reply the text the
\* backend answered with, chatReqs and ttsReqs count the requests it issued,
\* appended lists the entries it appended to history, audio is the URL it gave
\* to setAudioUrl, outcome how it returned, alive whether the conversation it
\* was called in is still the one shown, and conv the session id a chat
\* response had supplied for that conversation when it was called.

\* a sendChat call that has returned: its response is garbage
Returned(call, outcome) ==
  [call EXCEPT !.pc = "done", !.net = "none", !.resp = NoResp,
               !.outcome = outcome]

\* line 715: the Send button, disabled while loading or the box is blank
ClickSend(limit) ==
  /\ mounted
  /\ ~SendDisabled
  /\ sendChat(limit)

\* lines 354-359: Enter (without Shift) in the message box, which line 695
\* disables while listening
handleKeyDown(limit) ==
  /\ mounted
  /\ ~isListening
  /\ sendChat(limit)

\* lines 315-345: sendChat after the chat request has settled
ChatSettled(c) ==
  LET call == chats[c]
      r == call.resp
      data == r.body
  IN
  /\ call.pc = "chat" /\ call.net = "replied"
  /\ IF r.kind # "ok"
       THEN \* lines 346-351: catch and finally
         /\ status' = ErrorStatus(ErrorOf("Chat", r))
         /\ loading' = LoadingAfterError
         /\ chats' = [chats EXCEPT ![c] = Returned(call, "chat_failed")]
         /\ UNCHANGED << history, currentSessionId, lists, conv >>
       ELSE
         /\ currentSessionId' =
              IF IsNewSession(call, data) THEN data.session_id ELSE currentSessionId
         /\ lists' =
              IF IsNewSession(call, data)
                THEN Append(lists, ListCall("chat", Null, Null, FALSE)) ELSE lists
         /\ conv' =
              IF IsNewSession(call, data) /\ call.alive /\ conv = Null
                THEN data.session_id ELSE conv
         /\ history' = Append(history, botMsg(data))
         /\ IF WantsVoice(call)
              THEN
                /\ status' = << "Generating voice..." >>
                /\ loading' = loading
                /\ chats' = [chats EXCEPT
                     ![c].pc = "tts", ![c].net = "sent", ![c].resp = NoResp,
                     ![c].ttsText = Some(TtsText(call, data)),
                     ![c].ttsReqs = @ + 1,
                     ![c].appended = Append(@, botMsg(data))]
              ELSE
                /\ status' = ResponseTime(data)
                /\ loading' = FALSE
                /\ chats' = [chats EXCEPT
                     ![c] = [Returned(call, "ok") EXCEPT
                               !.appended = Append(@, botMsg(data))]]
  /\ UNCHANGED << mounted, message, textOnly, audioUrl, sessions, loads, dels,
                  store, nextId, nops, audioSrc, deleted >>
  /\ UNCHANGED << panelVars, selected >>

\* lines 339-351: sendChat after the TTS request has settled
TtsSettled(c) ==
  LET call == chats[c]
      r == call.resp
  IN
  /\ call.pc = "tts" /\ call.net = "replied"
  /\ IF r.kind # "ok"
       THEN
         /\ status' = ErrorStatus(ErrorOf("TTS", r))
         /\ loading' = LoadingAfterError
         /\ chats' = [chats EXCEPT ![c] = Returned(call, "tts_failed")]
         /\ UNCHANGED << audioUrl, audioSrc >>
       ELSE
         /\ audioUrl' = Some(createObjectURL(c))
         /\ audioSrc' = PlayedAfter(Some(createObjectURL(c)))
         /\ status' = << "Ready" >>
         /\ loading' = FALSE
         /\ chats' = [chats EXCEPT
              ![c] = [Returned(call, "ok") EXCEPT
                        !.audio = Some(createObjectURL(c))]]
  /\ UNCHANGED << mounted, message, history, textOnly, sessions,
                  currentSessionId, lists, loads, dels, store, nextId, nops,
                  conv, deleted >>
  /\ UNCHANGED << panelVars, selected >>

\* ------------------------------------------------------------------ sessions
RemoveAt(seq, i) == SubSeq(seq, 1, i - 1) \o SubSeq(seq, i + 1, Len(seq))

\* the calls of a conversation that is no longer the one shown
Left(cs) == [c \in DOMAIN cs |-> [cs[c] EXCEPT !.alive = FALSE]]

ShownIds == { sessions[i].id : i \in DOMAIN sessions }

\* lines 258-264: data.messages.map(m => ({ role, content, id }))
\* (ToChatMsg_NoId: the variant that leaves the id out)
ToChatMsg_NoId(m) ==
  [role |-> m.role, content |-> m.content, id |-> None,
   reactions |-> None, bookmarked |-> None]
ToChatMsg(m) ==
  [role |-> m.role, content |-> m.content, id |-> Some(m.id),
   reactions |-> None, bookmarked |-> None]
ToHistory(messages) == [i \in DOMAIN messages |-> ToChatMsg(messages[i])]

\* lines 272-277: createNewSession
\* (createNewSession_KeepsSession: the variant that forgets line 274)
createNewSession_KeepsSession ==
  /\ history' = <<>>
  /\ currentSessionId' = currentSessionId
  /\ audioUrl' = None
  /\ audioSrc' = PlayedAfter(None)
  /\ status' = << "New chat started" >>
  /\ conv' = Null
createNewSession ==
  /\ history' = <<>>
  /\ currentSessionId' = Null
  /\ audioUrl' = None
  /\ audioSrc' = PlayedAfter(None)
  /\ status' = << "New chat started" >>
  /\ conv' = Null

\* line 387: the New Chat button
ClickNewChat ==
  /\ mounted
  /\ createNewSession
  /\ chats' = Left(chats)
  /\ UNCHANGED << mounted, message, loading, textOnly, sessions, lists, loads,
                  dels, store, nextId, nops, deleted >>
  /\ UNCHANGED << panelVars, selected >>

\* lines 361-366, 722: the Clear button
clearAll ==
  /\ mounted
  /\ history' = <<>>
  /\ audioUrl' = None
  /\ audioSrc' = PlayedAfter(None)
  /\ currentSessionId' = Null
  /\ status' = << "Cleared" >>
  /\ conv' = Null
  /\ chats' = Left(chats)
  /\ UNCHANGED << mounted, message, loading, textOnly, sessions, lists, loads,
                  dels, store, nextId, nops, deleted >>
  /\ UNCHANGED << panelVars, selected >>

\* lines 253-255, 416: a click on a session of the sidebar sends
\* GET /sessions/{id}; limit bounds the sidebar operations of a behaviour, and n
\* is the call's place in selected
loadSession(id, limit) ==
  /\ mounted
  /\ id \in ShownIds
  /\ nops < limit
  /\ nops' = nops + 1
  /\ loads' = Append(loads, [id |-> id, net |-> "sent", resp |-> NoResp,
                             n |-> Len(selected) + 1])
  /\ selected' = Append(selected, [id |-> id, outcome |-> "pending"])
  /\ UNCHANGED << mounted, message, history, status, loading, textOnly,
                  audioUrl, sessions, currentSessionId, chats, lists, dels,
                  store, nextId, audioSrc, conv, deleted >>
  /\ UNCHANGED panelVars

\* lines 256-269: loadSession after its request has settled
LoadSessionSettled(i) ==
  LET call == loads[i]
      r == call.resp
  IN
  /\ call.net = "replied"
  /\ loads' = RemoveAt(loads, i)
  /\ selected' = [selected EXCEPT
       ![call.n].outcome = IF r.kind = "ok" THEN "ok" ELSE "failed"]
  /\ IF r.kind = "ok"
       THEN
         /\ history' = ToHistory(r.body.messages)
         /\ currentSessionId' = call.id
         /\ status' = << "Loaded: ", r.body.session.title >>
         /\ chats' = Left(chats)
         /\ conv' = Null
       ELSE UNCHANGED << history, currentSessionId, status, chats, conv >>
  /\ UNCHANGED << mounted, message, loading, textOnly, audioUrl, sessions,
                  lists, dels, store, nextId, nops, audioSrc, deleted >>
  /\ UNCHANGED panelVars

\* lines 279-283, 427: the delete button of a session sends
\* DELETE /sessions/{id}; limit bounds the sidebar operations of a behaviour
deleteSession(id, limit) ==
  /\ mounted
  /\ id \in ShownIds
  /\ nops < limit
  /\ nops' = nops + 1
  /\ dels' = Append(dels, [id |-> id, sid |-> currentSessionId,
                           net |-> "sent", resp |-> NoResp])
  /\ UNCHANGED << mounted, message, history, status, loading, textOnly,
                  audioUrl, sessions, currentSessionId, chats, lists, loads,
                  store, nextId, audioSrc, conv, deleted >>
  /\ UNCHANGED << panelVars, selected >>

\* lines 281-290: deleteSession after its DELETE has settled: a rejection ends
\* the call in the catch, any response (its status is not read) goes on to
\* loadSessions()
DeleteSettled(i) ==
  LET call == dels[i] IN
  /\ call.net = "replied"
  /\ dels' = RemoveAt(dels, i)
  /\ lists' = IF call.resp.kind = "reject"
                THEN lists
                ELSE Append(lists, ListCall("delete", call.id, call.sid, call.resp.kind = "ok"))
  /\ UNCHANGED << mounted, message, history, status, loading, textOnly,
                  audioUrl, sessions, currentSessionId, chats, loads, store,
                  nextId, nops, audioSrc, deleted, conv >>
  /\ UNCHANGED << panelVars, selected >>

\* lines 245-250: loadSessions after its request has settled, and for the call
\* deleteSession awaits, lines 285-287 of deleteSession
LoadSessionsSettled(i) ==
  LET call == lists[i]
      r == call.resp
  IN
  /\ call.net = "replied"
  /\ lists' = RemoveAt(lists, i)
  /\ sessions' = IF r.kind = "ok" THEN r.body.sessions ELSE sessions
  /\ IF call.owner = "delete" /\ call.sid = call.id
       THEN createNewSession /\ chats' = Left(chats)
       ELSE UNCHANGED << history, currentSessionId, audioUrl, audioSrc, status,
                         conv, chats >>
  /\ deleted' = IF call.owner = "delete" /\ call.ok /\ r.kind = "ok"
                  THEN deleted \cup {call.id} ELSE deleted
  /\ UNCHANGED << mounted, message, loading, textOnly, loads, dels, store,
                  nextId, nops >>
  /\ UNCHANGED << panelVars, selected >>

\* ------------------------------------------------------------------ voice panel
\* a ?? b
Nullish(x, d) == IF x = None THEN d ELSE x[1]

\* what the range input can be set to (two of its steps)
Speeds == { "1.05", "1.50" }

\* lines 216-223: loadConfig after its request has settled
ConfigSettled ==
  LET r == cfg.resp IN
  /\ cfg.net = "replied"
  /\ IF r.kind = "ok"
       THEN
         /\ voices' = r.body.voices
         /\ voice' = Nullish(r.body.default_voice, "Fritz-PlayAI")
         /\ speed' = Nullish(r.body.default_speed, "1.05")
         /\ cfg' = [cfg EXCEPT !.net = "loaded", !.resp = NoResp]
       ELSE
         /\ cfg' = [cfg EXCEPT !.net = "failed", !.resp = NoResp]
         /\ UNCHANGED << voices, voice, speed >>
  /\ UNCHANGED << mounted, message, history, status, loading, textOnly,
                  audioUrl, sessions, currentSessionId, chats, lists, loads,
                  dels, store, nextId, nops, audioSrc, deleted, conv >>
  /\ UNCHANGED << noteVars, hookVars, selected >>

\* lines 506-515: the voice selector offers the names of the mapping
SetVoice(k) ==
  /\ mounted
  /\ \E pair \in voices : pair[1] = k
  /\ voice # k
  /\ voice' = k
  /\ UNCHANGED << mounted, message, history, status, loading, textOnly,
                  audioUrl, sessions, currentSessionId, chats, lists, loads,
                  dels, store, nextId, nops, audioSrc, deleted, conv >>
  /\ UNCHANGED << voices, speed, cfg, noteVars, hookVars, selected >>

\* lines 522-530: the speed slider
SetSpeed(v) ==
  /\ mounted
  /\ speed # v
  /\ speed' = v
  /\ UNCHANGED << mounted, message, history, status, loading, textOnly,
                  audioUrl, sessions, currentSessionId, chats, lists, loads,
                  dels, store, nextId, nops, audioSrc, deleted, conv >>
  /\ UNCHANGED << voices, voice, cfg, noteVars, hookVars, selected >>

\* ------------------------------------------------------------------ voice input
\* what the recognition service can hear: an interim and a final result
Heard == { << "h" >>, << "h", "i" >> }

\* lines 74-80, 700: startListening.  recognition.start() throws
\* InvalidStateError when the recognition it started before has not ended, and
\* the handler ends there, after setTranscript("")
startListening ==
  /\ mounted /\ isSupported
  /\ IF recognition # "null" /\ ~isListening
       THEN
         /\ starts < MaxStarts
         /\ starts' = starts + 1
         /\ transcript' = <<>>
         /\ recognition' = IF recognition = "idle" THEN "started" ELSE recognition
         /\ isListening' = IF recognition = "idle" THEN TRUE ELSE isListening
       ELSE UNCHANGED << starts, transcript, recognition, isListening >>
  /\ UNCHANGED << mounted, message, history, status, loading, textOnly,
                  audioUrl, sessions, currentSessionId, chats, lists, loads,
                  dels, store, nextId, nops, audioSrc, deleted, conv >>
  /\ UNCHANGED << cfgVars, noteVars, isSupported, speechApi, selected >>

\* lines 82-87, 700: stopListening; the recognition ends later, with onend
stopListening ==
  /\ mounted /\ isSupported
  /\ IF recognition # "null" /\ isListening
       THEN
         /\ recognition' = IF recognition = "started" THEN "stopping" ELSE recognition
         /\ isListening' = FALSE
       ELSE UNCHANGED << recognition, isListening >>
  /\ UNCHANGED << mounted, message, history, status, loading, textOnly,
                  audioUrl, sessions, currentSessionId, chats, lists, loads,
                  dels, store, nextId, nops, audioSrc, deleted, conv >>
  /\ UNCHANGED << cfgVars, noteVars, transcript, isSupported, starts,
                  speechApi, selected >>

\* lines 55-59: recognition.onresult, and lines 149-153: the effect that copies
\* a changed, non-empty transcript into the message box
onresult(t) ==
  /\ recognition \in { "started", "stopping" }
  /\ transcript' = t
  /\ message' = IF t # transcript /\ t # <<>> THEN t ELSE message
  /\ UNCHANGED << mounted, history, status, loading, textOnly, audioUrl,
                  sessions, currentSessionId, chats, lists, loads, dels,
                  store, nextId, nops, audioSrc, deleted, conv >>
  /\ UNCHANGED << cfgVars, noteVars, isListening, isSupported, recognition,
                  starts, speechApi, selected >>

\* lines 61-63: recognition.onend
onend ==
  /\ recognition \in { "started", "stopping" }
  /\ recognition' = "idle"
  /\ isListening' = FALSE
  /\ UNCHANGED << mounted, message, history, status, loading, textOnly,
                  audioUrl, sessions, currentSessionId, chats, lists, loads,
                  dels, store, nextId, nops, audioSrc, deleted, conv >>
  /\ UNCHANGED << cfgVars, noteVars, transcript, isSupported, starts,
                  speechApi, selected >>

\* lines 65-68: recognition.onerror; the recognition has ended
onerror ==
  /\ recognition \in { "started", "stopping" }
  /\ recognition' = "idle"
  /\ isListening' = FALSE
  /\ UNCHANGED << mounted, message, history, status, loading, textOnly,
                  audioUrl, sessions, currentSessionId, chats, lists, loads,
                  dels, store, nextId, nops, audioSrc, deleted, conv >>
  /\ UNCHANGED << cfgVars, noteVars, transcript, isSupported, starts,
                  speechApi, selected >>

\* ------------------------------------------------------------------ annotations
\* line 114: the reactions the popup offers (two of the six)
availableReactions == { "heart", "thumb" }

\* Array.prototype.includes
Includes(list, x) == \E k \in DOMAIN list : list[k] = x

\* line 185: msg.reactions || []
ReactionsOf(msg) == IF msg.reactions = None THEN <<>> ELSE msg.reactions[1]

\* lines 186-191: the emoji is taken out when the entry has it, added when not
\* (ToggledReactions_Added: the variant that adds it in both cases)
ToggledReactions_Added(msg, emoji) == Append(ReactionsOf(msg), emoji)
ToggledReactions(msg, emoji) ==
  IF Includes(ReactionsOf(msg), emoji)
    THEN SelectSeq(ReactionsOf(msg), LAMBDA r : r # emoji)
    ELSE Append(ReactionsOf(msg), emoji)

\* lines 187-192: { ...msg, reactions }
Reacted(msg, emoji) ==
  [msg EXCEPT !.reactions = Some(ToggledReactions(msg, emoji))]

\* line 204: { ...msg, bookmarked: !msg.bookmarked }
IsBookmarked(msg) == msg.bookmarked = Some(TRUE)
Bookmarked(msg) == [msg EXCEPT !.bookmarked = Some(~IsBookmarked(msg))]

\* lines 182-196: the updater addReaction gives to setHistory
\* (addReactionTo_All: the variant that forgets the test of the index)
addReactionTo_All(prev, messageIndex, emoji) ==
  [i \in DOMAIN prev |-> Reacted(prev[i], emoji)]
addReactionTo(prev, messageIndex, emoji) ==
  [i \in DOMAIN prev |->
     IF i = messageIndex THEN Reacted(prev[i], emoji) ELSE prev[i]]

\* lines 201-208: the updater toggleBookmark gives to setHistory
toggleBookmarkIn(prev, messageIndex) ==
  [i \in DOMAIN prev |->
     IF i = messageIndex THEN Bookmarked(prev[i]) ELSE prev[i]]

\* lines 621-626: the reaction button of entry i opens or closes its popup
ToggleReactionPopup(i) ==
  /\ mounted
  /\ i \in DOMAIN history
  /\ showReactionPopup' = IF showReactionPopup = Some(i) THEN None ELSE Some(i)
  /\ UNCHANGED << mounted, message, history, status, loading, textOnly,
                  audioUrl, sessions, currentSessionId, chats, lists, loads,
                  dels, store, nextId, nops, audioSrc, deleted, conv >>
  /\ UNCHANGED << cfgVars, nnotes, hookVars, selected >>

\* lines 181-198, 642: a button of the popup of entry i
addReaction(i, emoji) ==
  /\ mounted
  /\ i \in DOMAIN history
  /\ nnotes < MaxNotes
  /\ nnotes' = nnotes + 1
  /\ history' = addReactionTo(history, i, emoji)
  /\ showReactionPopup' = None
  /\ UNCHANGED << mounted, message, status, loading, textOnly, audioUrl,
                  sessions, currentSessionId, chats, lists, loads, dels,
                  store, nextId, nops, audioSrc, deleted, conv >>
  /\ UNCHANGED << cfgVars, hookVars, selected >>

\* lines 200-209, 587: the bookmark of entry i
toggleBookmark(i) ==
  /\ mounted
  /\ i \in DOMAIN history
  /\ nnotes < MaxNotes
  /\ nnotes' = nnotes + 1
  /\ history' = toggleBookmarkIn(history, i)
  /\ UNCHANGED << mounted, message, status, loading, textOnly, audioUrl,
                  sessions, currentSessionId, chats, lists, loads, dels,
                  store, nextId, nops, audioSrc, deleted, conv >>
  /\ UNCHANGED << cfgVars, showReactionPopup, hookVars, selected >>

\* ------------------------------------------------------------------ backend
\* The relay and its store, from sections 3, 4.1, 4.3 and 6 of the
\* specification.  Every request may also fail: with a non-ok status, or with
\* no response at all (the fetch rejects); a failed request leaves the store
\* as it is.

\* a session row as GET /sessions lists it
SessionRow(id) == [id |-> id, title |-> "Session " \o ToString(id)]

RECURSIVE RowsOf(_)
RowsOf(ids) ==
  IF ids = {} THEN <<>>
  ELSE LET least == CHOOSE x \in ids : \A y \in ids : x <= y
       IN << SessionRow(least) >> \o RowsOf(ids \ {least})

\* the messages GET /sessions/{id} returns: the exchange the row was made for
StoredMessages(id) ==
  << [id |-> 2 * id - 1, session_id |-> id, role |-> "user",
      content |-> << "q" >>, timestamp |-> "t"],
     [id |-> 2 * id, session_id |-> id, role |-> "assistant",
      content |-> << "r" >>, timestamp |-> "t"] >>

\* POST /chat/session: the completion, and a new session row when the request
\* names none
ServeChat(c) ==
  LET call == chats[c]
      sid == call.body.session_id
  IN
  /\ call.pc = "chat" /\ call.net = "sent"
  /\ \/ \E text \in Replies :
          /\ sid = Null \/ sid \in store
          /\ chats' = [chats EXCEPT ![c].net = "replied",
               ![c].reply = Some(text),
               ![c].resp = Ok([response |-> text,
                               session_id |-> IF sid = Null THEN nextId ELSE sid,
                               duration_seconds |-> "1"])]
          /\ store' = IF sid = Null THEN store \cup {nextId} ELSE store
          /\ nextId' = IF sid = Null THEN nextId + 1 ELSE nextId
     \/ /\ sid # Null /\ sid \notin store
        /\ chats' = [chats EXCEPT ![c].net = "replied", ![c].resp = HttpNotFound]
        /\ UNCHANGED << store, nextId >>
     \/ \E f \in Failures :
          /\ chats' = [chats EXCEPT ![c].net = "replied", ![c].resp = f]
          /\ UNCHANGED << store, nextId >>
  /\ UNCHANGED << mounted, message, history, status, loading, textOnly,
                  audioUrl, sessions, currentSessionId, lists, loads, dels,
                  nops, audioSrc, conv, deleted >>
  /\ UNCHANGED << panelVars, selected >>

\* POST /voice/groq/stream: the audio of the text
ServeTts(c) ==
  LET call == chats[c] IN
  /\ call.pc = "tts" /\ call.net = "sent"
  /\ \E r \in { Ok([audio |-> call.ttsText]) } \cup Failures :
       chats' = [chats EXCEPT ![c].net = "replied", ![c].resp = r]
  /\ UNCHANGED << mounted, message, history, status, loading, textOnly,
                  audioUrl, sessions, currentSessionId, lists, loads, dels,
                  store, nextId, nops, audioSrc, conv, deleted >>
  /\ UNCHANGED << panelVars, selected >>

\* GET /voice/groq/config: the static mapping of voice names to provider voice
\* ids, and the defaults, which an answer may leave out
VoiceTable == { << "Arista-PlayAI", "arista" >>, << "Fritz-PlayAI", "fritz" >> }
ConfigBodies ==
  { [voices |-> VoiceTable, default_voice |-> Some("Fritz-PlayAI"),
     default_speed |-> None],
    [voices |-> VoiceTable, default_voice |-> None,
     default_speed |-> Some("1.00")] }

ServeConfig ==
  /\ cfg.net = "sent"
  /\ \E r \in { Ok(b) : b \in ConfigBodies } \cup Failures :
       cfg' = [cfg EXCEPT !.net = "replied", !.resp = r]
  /\ UNCHANGED << mounted, message, history, status, loading, textOnly,
                  audioUrl, sessions, currentSessionId, chats, lists, loads,
                  dels, store, nextId, nops, audioSrc, deleted, conv >>
  /\ UNCHANGED << voices, voice, speed, noteVars, hookVars, selected >>

\* GET /sessions: the rows of the store
ServeSessions(i) ==
  /\ lists[i].net = "sent"
  /\ \E r \in { Ok([sessions |-> RowsOf(store)]) } \cup Failures :
       lists' = [lists EXCEPT ![i].net = "replied", ![i].resp = r]
  /\ UNCHANGED << mounted, message, history, status, loading, textOnly,
                  audioUrl, sessions, currentSessionId, chats, loads, dels,
                  store, nextId, nops, audioSrc, conv, deleted >>
  /\ UNCHANGED << panelVars, selected >>

\* GET /sessions/{id}: the row and its messages, 404 when there is no such row
ServeSession(i) ==
  LET id == loads[i].id IN
  /\ loads[i].net = "sent"
  /\ \E r \in { IF id \in store
                  THEN Ok([session |-> SessionRow(id),
                           messages |-> StoredMessages(id)])
                  ELSE HttpNotFound } \cup Failures :
       loads' = [loads EXCEPT ![i].net = "replied", ![i].resp = r]
  /\ UNCHANGED << mounted, message, history, status, loading, textOnly,
                  audioUrl, sessions, currentSessionId, chats, lists, dels,
                  store, nextId, nops, audioSrc, conv, deleted >>
  /\ UNCHANGED << panelVars, selected >>

\* DELETE /sessions/{id}?permanent=true: the row is removed, 404 when there is none
ServeDelete(i) ==
  LET id == dels[i].id IN
  /\ dels[i].net = "sent"
  /\ \/ /\ dels' = [dels EXCEPT ![i].net = "replied",
              ![i].resp = IF id \in store THEN Ok([deleted |-> id]) ELSE HttpNotFound]
        /\ store' = store \ {id}
     \/ \E f \in Failures :
          /\ dels' = [dels EXCEPT ![i].net = "replied", ![i].resp = f]
          /\ UNCHANGED store
  /\ UNCHANGED << mounted, message, history, status, loading, textOnly,
                  audioUrl, sessions, currentSessionId, chats, lists, loads,
                  nextId, nops, audioSrc, deleted, conv >>
  /\ UNCHANGED << panelVars, selected >>

\* ------------------------------------------------------------------ Next
\* the user's controls of the chat pipeline
Controls(limit) ==
  \/ \E m \in Typed : SetMessage(m)
  \/ SetTextOnly
  \/ ClickSend(limit)
  \/ handleKeyDown(limit)

\* the chat and TTS requests: the backend's answers and sendChat's continuations
Pipeline ==
  \/ \E c \in DOMAIN chats : ServeChat(c)
  \/ \E c \in DOMAIN chats : ChatSettled(c)
  \/ \E c \in DOMAIN chats : ServeTts(c)
  \/ \E c \in DOMAIN chats : TtsSettled(c)

\* the sidebar: its controls, its requests and their continuations
Sidebar(limit) ==
  \/ \E id \in ShownIds : loadSession(id, limit)
  \/ \E id \in ShownIds : deleteSession(id, limit)
  \/ \E i \in DOMAIN loads : ServeSession(i)
  \/ \E i \in DOMAIN loads : LoadSessionSettled(i)
  \/ \E i \in DOMAIN dels : ServeDelete(i)
  \/ \E i \in DOMAIN dels : DeleteSettled(i)
  \/ \E i \in DOMAIN lists : ServeSessions(i)
  \/ \E i \in DOMAIN lists : LoadSessionsSettled(i)

\* the whole page
Next ==
  \/ Mount
  \/ Controls(MaxPageCalls)
  \/ Pipeline
  \/ ClickNewChat
  \/ clearAll
  \/ Sidebar(MaxOps)

Spec == Init /\ [][Next]_vars

\* the chat pipeline on its own, with calls that overlap
ChatNext ==
  \/ Mount
  \/ Controls(MaxCalls)
  \/ Pipeline

ChatSpec == Init /\ [][ChatNext]_vars

\* every fetch settles and every continuation is run
ChatFairness ==
  \A c \in 1..MaxCalls :
    /\ WF_vars(c \in DOMAIN chats /\ ServeChat(c))
    /\ WF_vars(c \in DOMAIN chats /\ ChatSettled(c))
    /\ WF_vars(c \in DOMAIN chats /\ ServeTts(c))
    /\ WF_vars(c \in DOMAIN chats /\ TtsSettled(c))

FairChatSpec == ChatSpec /\ ChatFairness

\* the chat pipeline over a longer conversation
ThreadNext ==
  \/ Mount
  \/ Controls(MaxThread)
  \/ Pipeline

ThreadSpec == Init /\ [][ThreadNext]_vars

\* the sidebar alone, over a store of two sessions
SwitchInit == Start(2, TRUE)

SwitchNext ==
  \/ Mount
  \/ Sidebar(MaxSwitches)

SwitchSpec == SwitchInit /\ [][SwitchNext]_vars

\* the voice panel: the configuration request and the controls
Panel ==
  \/ ServeConfig
  \/ ConfigSettled
  \/ \E k \in { pair[1] : pair \in voices } : SetVoice(k)
  \/ \E v \in Speeds : SetSpeed(v)

\* the voice input: the microphone button and the events of the recognition
VoiceInput ==
  \/ startListening
  \/ stopListening
  \/ \E t \in Heard : onresult(t)
  \/ onend
  \/ onerror

\* the page in a browser with or without the speech API
VoiceInit == \E api \in BOOLEAN : Start(1, api)

\* the voice input beside a conversation
VoiceNext ==
  \/ Mount
  \/ Controls(MaxVoiceCalls)
  \/ Pipeline
  \/ VoiceInput

VoiceSpec == VoiceInit /\ [][VoiceNext]_vars

\* the voice panel beside a conversation
PanelNext ==
  \/ Mount
  \/ Controls(MaxPanelCalls)
  \/ Pipeline
  \/ Panel

PanelSpec == Init /\ [][PanelNext]_vars

\* the annotations of the entries
Notes ==
  \/ \E i \in DOMAIN history : ToggleReactionPopup(i)
  \/ \E i \in DOMAIN history : \E emoji \in availableReactions :
       addReaction(i, emoji)
  \/ \E i \in DOMAIN history : toggleBookmark(i)

\* a loaded session, annotated
NotesNext ==
  \/ Mount
  \/ Notes
  \/ ClickNewChat
  \/ clearAll
  \/ \E id \in ShownIds : loadSession(id, MaxOps)
  \/ \E i \in DOMAIN loads : ServeSession(i)
  \/ \E i \in DOMAIN loads : LoadSessionSettled(i)
  \/ \E i \in DOMAIN lists : ServeSessions(i)
  \/ \E i \in DOMAIN lists : LoadSessionsSettled(i)

NotesSpec == Init /\ [][NotesNext]_vars

\* ================================================================== claims
Calls == DOMAIN chats
IsDone(c) == chats[c].pc = "done"
ChatSucceeded(c) == chats[c].pc = "tts" \/ chats[c].outcome \in {"ok", "tts_failed"}

Spaces(n) == [i \in 1..n |-> " "]

\* t is s without its leading and trailing spaces
IsTrimOf(t, s) ==
  /\ \E i, j \in 0..Len(s) : s = Spaces(i) \o t \o Spaces(j)
  /\ t # <<>> => (Head(t) # " " /\ t[Len(t)] # " ")

IsUserEntry(e, typed) == e.role = "user" /\ IsTrimOf(e.content, typed)
IsAssistantEntry(e, reply) == e.role = "assistant" /\ reply = Some(e.content)

\* C1 as stated: every sendChat call with a non-blank message that has finished
\* has contributed exactly two entries to history, the user entry with the
\* trimmed message followed by the assistant entry with the backend's response
\* text.
C1_TwoEntriesPerCall ==
  \A c \in Calls :
    IsDone(c) =>
      /\ Len(chats[c].appended) = 2
      /\ IsUserEntry(chats[c].appended[1], chats[c].typed)
      /\ IsAssistantEntry(chats[c].appended[2], chats[c].reply)

\* what each step of a call does to history: the call's first step appends its
\* user entry, the step that takes the ok chat response appends the assistant
\* entry, and its other steps leave history alone
C1_Step ==
  \A c \in DOMAIN chats' :
    IF c \notin Calls
      THEN /\ Len(history') = Len(history) + 1
           /\ IsUserEntry(history'[Len(history')], message)
      ELSE chats'[c].pc # chats[c].pc =>
             IF chats[c].pc = "chat" /\ chats[c].resp.kind = "ok"
               THEN /\ Len(history') = Len(history) + 1
                    /\ SubSeq(history', 1, Len(history)) = history
                    /\ IsAssistantEntry(history'[Len(history')], chats[c].reply)
               ELSE history' = history

C1_Totals ==
  \A c \in Calls :
    /\ chats[c].typed # <<>> /\ Trim(chats[c].typed) # <<>>
    /\ Len(chats[c].appended) >= 1
    /\ IsUserEntry(chats[c].appended[1], chats[c].typed)
    /\ IsDone(c) /\ ChatSucceeded(c) =>
         /\ Len(chats[c].appended) = 2
         /\ IsAssistantEntry(chats[c].appended[2], chats[c].reply)
    /\ IsDone(c) /\ ~ChatSucceeded(c) => Len(chats[c].appended) = 1

\* C1 as amended: a finished sendChat call whose chat request succeeded has
\* contributed exactly two entries to history, the user entry with the trimmed
\* message followed by the assistant entry with the backend's response text; a
\* finished call whose chat request failed has contributed the user entry only.
C1_TwoEntriesPerAnsweredCall == []C1_Totals /\ [][C1_Step]_vars

\* C1's case: a message typed with spaces around it was sent and answered, and
\* the call has finished
C1_Witness ==
  \E c \in Calls :
    /\ IsDone(c) /\ ChatSucceeded(c)
    /\ chats[c].typed # Trim(chats[c].typed)
    /\ Len(chats[c].appended) = 2
    /\ Len(history) >= 2
    /\ history[Len(history)] = chats[c].appended[2]

\* C2: at most one chat request is in flight at any time, and no second sendChat
\* starts while one has not finished.
C2_OneChatRequestInFlight ==
  /\ Cardinality({ c \in Calls : chats[c].pc = "chat" }) <= 1
  /\ Cardinality({ c \in Calls : ~IsDone(c) }) <= 1

\* C3: every sendChat call that has set loading to true comes to set it back to
\* false, however its requests end, provided every fetch settles.
C3_LoadingReset ==
  \A c \in 1..MaxCalls :
    (c \in Calls /\ ~IsDone(c)) ~> (c \in Calls /\ IsDone(c) /\ ~loading)

\* C3's case: a call has failed and the spinner is off
C3_Witness ==
  /\ ~loading
  /\ \E c \in Calls : chats[c].outcome = "tts_failed"
  /\ \E c \in Calls : chats[c].outcome = "chat_failed"

\* C4: when the chat or the TTS request of a sendChat call fails, the status is
\* set to a string that starts with "Error: ", no request of the call is issued
\* a second time, and after a chat failure the call appends no assistant entry
\* and issues no TTS request.
C4_FailureStep(c) ==
  LET before == chats[c]
      after == chats'[c]
  IN
  /\ (before.pc # "done" /\ after.outcome \in {"chat_failed", "tts_failed"}) =>
       Head(status') = "Error: "
  /\ after.chatReqs = 1 /\ after.ttsReqs <= 1
  /\ before.pc = "done" =>
       /\ after.pc = "done"
       /\ after.chatReqs = before.chatReqs /\ after.ttsReqs = before.ttsReqs
       /\ after.appended = before.appended
  /\ after.outcome = "chat_failed" =>
       /\ after.ttsReqs = 0
       /\ \A i \in DOMAIN after.appended : after.appended[i].role # "assistant"

C4_FailureSurfaced == [][\A c \in Calls : C4_FailureStep(c)]_vars

\* C4's case: one call's chat request failed, and another's TTS request
C4_Witness ==
  /\ Head(status) = "Error: "
  /\ \E c \in Calls : chats[c].outcome = "chat_failed"
  /\ \E c \in Calls : chats[c].outcome = "tts_failed"

\* C5: when a session-store request fails (GET /sessions, GET /sessions/{id} or
\* DELETE /sessions/{id}, by network error or non-ok status), the status shown
\* is changed to an error message.
C5_StoreFailureStep ==
  \/ \E i \in DOMAIN lists :
       lists[i].net = "replied" /\ lists[i].resp.kind # "ok"
         /\ lists' = RemoveAt(lists, i)
  \/ \E i \in DOMAIN loads :
       loads[i].net = "replied" /\ loads[i].resp.kind # "ok"
         /\ loads' = RemoveAt(loads, i)
  \/ \E i \in DOMAIN dels :
       dels[i].net = "replied" /\ dels[i].resp.kind # "ok"
         /\ dels' = RemoveAt(dels, i)

C5_StoreFailureSurfaced ==
  [][C5_StoreFailureStep => (status' # status /\ Head(status') = "Error: ")]_vars

\* C6 (for the calls whose DELETE and GET /sessions both succeed): once
\* deleteSession(id) has finished, the session list shown does not contain id,
\* whatever other loadSessions responses arrive.
C6_DeletedNotShown == \A id \in deleted : id \notin ShownIds

\* C7: once a chat response has supplied a session id for a conversation started
\* with no session, every later chat request of that conversation carries that
\* id, and a request carries null only when no session is current as it is sent.
C7_SessionThreaded ==
  \A c \in Calls :
    /\ (chats[c].conv # Null) => chats[c].body.session_id = chats[c].conv
    /\ (chats[c].body.session_id = Null) => chats[c].sid = Null

\* C8: a chat response changes currentSessionId only when no session is
\* current: with a session current as the response is processed,
\* currentSessionId is left as it is.
C8_ResponseStep(c) ==
  (chats[c].pc = "chat" /\ chats'[c].pc # "chat" /\ currentSessionId # Null) =>
    currentSessionId' = currentSessionId

C8_CurrentSessionKept == [][\A c \in Calls : C8_ResponseStep(c)]_vars

\* C9: a call made with "text only" enabled issues no TTS request and leaves
\* audioUrl alone; a call made with it disabled issues exactly one TTS request,
\* after a successful chat response.
C9_Requests ==
  \A c \in Calls :
    /\ chats[c].textOnly =>
         chats[c].ttsReqs = 0 /\ chats[c].pc # "tts" /\ chats[c].audio = None
    /\ (~chats[c].textOnly /\ ChatSucceeded(c)) => chats[c].ttsReqs = 1
    /\ ~ChatSucceeded(c) => chats[c].ttsReqs = 0

C9_Step ==
  \A c \in Calls :
    (chats[c].textOnly /\ chats'[c].pc # chats[c].pc) => audioUrl' = audioUrl

C9_TextOnlySkipsVoice == []C9_Requests /\ [][C9_Step]_vars

\* C9's case: a call made with the option enabled and one made with it disabled
\* have both been answered and have finished
C9_Witness ==
  /\ \E c \in Calls :
       chats[c].textOnly /\ chats[c].outcome = "ok" /\ chats[c].ttsReqs = 0
  /\ \E c \in Calls :
       ~chats[c].textOnly /\ chats[c].outcome = "ok" /\ chats[c].ttsReqs = 1

\* C10: within one call the chat request is sent, its ok response is received
\* and the assistant entry appended, only then the TTS request is sent, with
\* exactly the response text, and audioUrl is set only after the TTS request
\* returned ok; no TTS request is sent before or without an ok chat response.
C10_Order ==
  \A c \in Calls :
    /\ chats[c].pc = "chat" =>
         /\ chats[c].ttsReqs = 0 /\ chats[c].audio = None
         /\ Len(chats[c].appended) = 1
    /\ chats[c].ttsReqs > 0 =>
         /\ chats[c].reply # None
         /\ Len(chats[c].appended) = 2
         /\ IsAssistantEntry(chats[c].appended[2], chats[c].reply)
         /\ chats[c].ttsText = Some(encodeURIComponent(chats[c].reply[1]))
    /\ chats[c].audio # None =>
         /\ chats[c].ttsReqs = 1 /\ chats[c].outcome = "ok"
         /\ chats[c].ttsText = Some(encodeURIComponent(chats[c].reply[1]))

C10_Step ==
  /\ \A c \in Calls :
       chats'[c].ttsReqs > chats[c].ttsReqs =>
         /\ chats[c].pc = "chat" /\ chats[c].net = "replied"
         /\ chats[c].resp.kind = "ok"
         /\ history' = Append(history,
              [role |-> "assistant", content |-> chats[c].resp.body.response,
               id |-> None, reactions |-> None, bookmarked |-> None])
         /\ chats'[c].ttsText =
              Some(encodeURIComponent(chats[c].resp.body.response))
  /\ (audioUrl' # audioUrl /\ audioUrl' # None) =>
       \E c \in Calls :
         /\ chats[c].pc = "tts" /\ chats[c].net = "replied"
         /\ chats[c].resp.kind = "ok"
         /\ chats'[c].pc = "done"
         /\ audioSrc' = audioUrl'

C10_ChatThenVoice == []C10_Order /\ [][C10_Step]_vars

\* C10's case: a call has gone through both requests and its audio is playing
C10_Witness ==
  \E c \in Calls :
    /\ chats[c].outcome = "ok" /\ chats[c].audio # None
    /\ audioUrl = chats[c].audio /\ audioSrc = chats[c].audio

\* the requests in flight, the backend's store and the requests ever sent
Requests == << chats, lists, loads, dels, cfg, store, nextId >>

\* C11: addReaction(i, emoji) and toggleBookmark(i) change nothing but the
\* annotation of the entry at index i: the length and order of history and the
\* role, content and id of every entry are unchanged, every entry at another
\* index is unchanged, currentSessionId and the session list are unchanged, and
\* no backend request is issued.
C11_Step ==
  nnotes' > nnotes =>
    /\ Len(history') = Len(history)
    /\ \A k \in DOMAIN history :
         /\ history'[k].role = history[k].role
         /\ history'[k].content = history[k].content
         /\ history'[k].id = history[k].id
    /\ \E i \in DOMAIN history :
         /\ \A k \in DOMAIN history : k # i => history'[k] = history[k]
         /\ \/ history'[i].reactions # history[i].reactions
               /\ history'[i].bookmarked = history[i].bookmarked
            \/ history'[i].bookmarked # history[i].bookmarked
               /\ history'[i].reactions = history[i].reactions
    /\ currentSessionId' = currentSessionId
    /\ sessions' = sessions
    /\ Requests' = Requests

C11_AnnotationsOnly == [][C11_Step]_vars

\* C11's case: of the two entries of a loaded session, one has a reaction and
\* the other a bookmark
C11_Witness ==
  /\ Len(history) = 2
  /\ \E i, j \in DOMAIN history :
       /\ i # j
       /\ history[i].id # None /\ history[j].id # None
       /\ ReactionsOf(history[i]) # <<>> /\ history[i].bookmarked = None
       /\ IsBookmarked(history[j]) /\ history[j].reactions = None

\* the reactions of an entry, as a set
ReactionSet(msg) == { ReactionsOf(msg)[k] : k \in DOMAIN ReactionsOf(msg) }

\* C19: addReaction(i, emoji) called twice in a row restores the entry's set of
\* reactions (the first call having changed whether the emoji is in it),
\* toggleBookmark(i) called twice restores the bookmark flag, and after any
\* sequence of addReaction calls no entry's reactions list holds an emoji twice.
C19_Toggles ==
  \A i \in DOMAIN history :
    /\ \A emoji \in availableReactions :
         LET once == addReactionTo(history, i, emoji)
             twice == addReactionTo(once, i, emoji)
         IN /\ (emoji \in ReactionSet(once[i])) # (emoji \in ReactionSet(history[i]))
            /\ ReactionSet(once[i]) \ {emoji} = ReactionSet(history[i]) \ {emoji}
            /\ ReactionSet(twice[i]) = ReactionSet(history[i])
    /\ LET once == toggleBookmarkIn(history, i)
           twice == toggleBookmarkIn(once, i)
       IN /\ IsBookmarked(once[i]) # IsBookmarked(history[i])
          /\ IsBookmarked(twice[i]) = IsBookmarked(history[i])
    /\ Cardinality(ReactionSet(history[i])) = Len(ReactionsOf(history[i]))

C19_Step ==
  nnotes' > nnotes =>
    \E i \in DOMAIN history :
      \/ \E emoji \in availableReactions :
           /\ history' = addReactionTo(history, i, emoji)
           /\ (emoji \in ReactionSet(history'[i])) # (emoji \in ReactionSet(history[i]))
      \/ /\ history' = toggleBookmarkIn(history, i)
         /\ IsBookmarked(history'[i]) # IsBookmarked(history[i])

C19_ReactionsToggle == []C19_Toggles /\ [][C19_Step]_vars

\* C19's case: an entry was given a reaction that was then taken back, and the
\* bookmark of another was set and cleared
C19_Witness ==
  \E i, j \in DOMAIN history :
    /\ i # j
    /\ history[i].reactions = Some(<<>>) /\ history[i].bookmarked = None
    /\ history[j].bookmarked = Some(FALSE) /\ history[j].reactions = None
    /\ nnotes = 4

\* the sendChat calls as the backend sees them: their requests and responses
Sent(cs) == [c \in DOMAIN cs |-> [cs[c] EXCEPT !.alive = FALSE, !.conv = Null]]

\* what New Chat and Clear leave alone whatever they reset: the session list,
\* the requests and the store, and the rest of the page
C12_Frame ==
  /\ sessions' = sessions
  /\ Sent(chats') = Sent(chats)
  /\ << lists, loads, dels, cfg, store, nextId >>' =
       << lists, loads, dels, cfg, store, nextId >>
  /\ << message, loading, textOnly, audioSrc, voices, voice, speed >>' =
       << message, loading, textOnly, audioSrc, voices, voice, speed >>

\* a chat request with session_id null is sent by sendChat only, and the store
\* makes a session row only for such a request
C12_Creation ==
  /\ \A c \in DOMAIN chats' :
       (c \notin DOMAIN chats /\ chats'[c].body.session_id = Null) =>
         /\ Trim(message) # <<>>
         /\ history' = Append(history, userMsg(message))
         /\ loading' /\ status' = << "Thinking..." >>
  /\ store' # store /\ store \subseteq store' =>
       \E c \in DOMAIN chats :
         /\ chats[c].pc = "chat" /\ chats[c].net = "sent"
         /\ chats[c].body.session_id = Null

\* C12 as stated: createNewSession ("New Chat") and clearAll ("Clear") issue no
\* backend request and leave the session list unchanged; they only reset
\* history to empty, currentSessionId to null and audioUrl to null (and so
\* leave the status line as it is). A chat request with session_id null is
\* sent only by sendChat.
C12_ResetsOnly ==
  [][ /\ (ClickNewChat \/ clearAll) =>
           /\ history' = <<>> /\ currentSessionId' = Null /\ audioUrl' = None
           /\ C12_Frame
           /\ status' = status
      /\ C12_Creation ]_vars

\* C12 as amended: createNewSession and clearAll issue no backend request and
\* leave the session list unchanged; they reset history to empty,
\* currentSessionId to null and audioUrl to null, and set the status line to
\* "New chat started" and "Cleared". A chat request with session_id null is
\* sent only by sendChat.
C12_ResetsAndStatus ==
  [][ /\ ClickNewChat =>
           /\ history' = <<>> /\ currentSessionId' = Null /\ audioUrl' = None
           /\ C12_Frame
           /\ status' = << "New chat started" >>
      /\ clearAll =>
           /\ history' = <<>> /\ currentSessionId' = Null /\ audioUrl' = None
           /\ C12_Frame
           /\ status' = << "Cleared" >>
      /\ C12_Creation ]_vars

\* C12's case: the page was reset while a session was listed and a chat request
\* that named no session was in flight
C12_Witness ==
  /\ status \in { << "New chat started" >>, << "Cleared" >> }
  /\ history = <<>> /\ currentSessionId = Null /\ audioUrl = None
  /\ sessions # <<>>
  /\ \E c \in Calls :
       chats[c].pc = "chat" /\ ~chats[c].alive /\ chats[c].body.session_id = Null

\* C13: the voice configuration is requested exactly once, on mount, and once
\* it has been loaded no later operation modifies the voices mapping.
C13_Requested == cfg.reqs = (IF mounted THEN 1 ELSE 0)

C13_Step ==
  /\ cfg'.reqs # cfg.reqs => ~mounted /\ mounted'
  /\ voices' # voices =>
       /\ cfg.net = "replied" /\ cfg.resp.kind = "ok"
       /\ voices' = cfg.resp.body.voices
       /\ cfg'.net = "loaded"
  /\ cfg.net \in { "loaded", "failed" } => voices' = voices /\ cfg' = cfg

C13_ConfigOnce == []C13_Requested /\ [][C13_Step]_vars

\* C13's case: the configuration was loaded, and then another voice and speed
\* were selected and a message was sent and answered with its audio
C13_Witness ==
  /\ cfg.net = "loaded" /\ cfg.reqs = 1
  /\ voices # {}
  /\ speed = "1.50"
  /\ \E c \in Calls :
       /\ chats[c].outcome = "ok" /\ chats[c].audio # None
       /\ chats[c].voice = "Arista-PlayAI" /\ chats[c].speed = "1.50"
       /\ voice = "Fritz-PlayAI"

\* C18: recognition.start() is never called while a recognition started before
\* has not ended (no onend or onerror received for it), under any sequence of
\* startListening, stopListening, onend and onerror; startListening is a no-op
\* while isListening is true and stopListening is a no-op while it is false.
C18_Step ==
  /\ starts' > starts => recognition = "idle"
  /\ (isListening /\ startListening) => vars' = vars
  /\ (~isListening /\ stopListening) => vars' = vars

C18_StartWhenEnded == [][C18_Step]_vars

\* C14: loadSession(id) is all-or-nothing: when its request succeeds, history
\* becomes exactly the returned messages in the returned order (role, content
\* and id only, with no reactions or bookmarks) and currentSessionId becomes id
\* in the same step; when the request fails or returns a non-ok status,
\* history and currentSessionId are both left unchanged.
C14_Step ==
  \A i \in DOMAIN loads :
    (loads[i].net = "replied" /\ loads' = RemoveAt(loads, i)) =>
      IF loads[i].resp.kind = "ok"
        THEN LET messages == loads[i].resp.body.messages IN
          /\ Len(history') = Len(messages)
          /\ \A k \in DOMAIN messages :
               /\ history'[k].role = messages[k].role
               /\ history'[k].content = messages[k].content
               /\ history'[k].id = Some(messages[k].id)
               /\ history'[k].reactions = None
               /\ history'[k].bookmarked = None
          /\ currentSessionId' = loads[i].id
        ELSE history' = history /\ currentSessionId' = currentSessionId

C14_AllOrNothing == [][C14_Step]_vars

\* C14's case: a session was loaded over a conversation that had begun
C14_Witness ==
  /\ Len(selected) = 1 /\ selected[1].outcome = "ok"
  /\ currentSessionId = selected[1].id
  /\ Len(history) = 2
  /\ history[1].id = Some(1) /\ history[2].id = Some(2)
  /\ history[1].role = "user" /\ history[2].role = "assistant"
  /\ \E c \in Calls : ~chats[c].alive

\* C15: the displayed history only ever holds messages of one conversation: an
\* assistant reply (or generated audio) to a chat request sent before the user
\* pressed New Chat or Clear, switched to another session or deleted the
\* current one is never appended to the history (or played) of the
\* conversation shown afterwards.
C15_Step ==
  \A c \in Calls :
    (~chats[c].alive /\ chats'[c].pc # chats[c].pc) =>
      /\ history' = history
      /\ audioUrl' = audioUrl /\ audioSrc' = audioSrc

C15_OneConversation == [][C15_Step]_vars

\* C16 (for the calls whose DELETE succeeds): once deleteSession(id) has
\* finished, currentSessionId is not id: if the deleted session is the one
\* displayed when the deletion completes, the page is reset to an empty new
\* chat, even if the user switched session while the request was in flight;
\* deleting a session that is not displayed leaves history and
\* currentSessionId unchanged.
C16_Step ==
  \A i \in DOMAIN lists :
    ( /\ lists[i].owner = "delete" /\ lists[i].ok
      /\ lists[i].net = "replied" /\ lists' = RemoveAt(lists, i) ) =>
      /\ currentSessionId' # lists[i].id
      /\ currentSessionId = lists[i].id =>
           history' = <<>> /\ currentSessionId' = Null
      /\ currentSessionId # lists[i].id =>
           history' = history /\ currentSessionId' = currentSessionId

C16_DeletedNotCurrent == [][C16_Step]_vars

\* C17: when two loadSession calls overlap, the session shown once both have
\* finished (history and currentSessionId) is the one the user selected last,
\* regardless of the order in which the two responses arrive (stated for calls
\* that all succeed, with no other sidebar operation in the behaviour).
C17_LastSelectedShown ==
  ( /\ Len(selected) >= 2 /\ nops = Len(selected)
    /\ \A k \in DOMAIN selected : selected[k].outcome = "ok" ) =>
    /\ currentSessionId = selected[Len(selected)].id
    /\ history = ToHistory(StoredMessages(selected[Len(selected)].id))

====
